---- MODULE Spec2Model ----
(***************************************************************************)
(* A model of webserver.py: the accept loop, one worker thread per         *)
(* connection (handle_http_connection), the request reader and parser      *)
(* (Connection.read_until_blank_line, Connection.read_amount,              *)
(* handle_one_http_request), the response writer (send_http_response) and  *)
(* the lock-protected Statistics object.                                   *)
(*                                                                         *)
(* Bytes and text are sequences of atoms: the control bytes "\r", "\n",    *)
(* " ", ":" and "?" stand for themselves, every other atom is a run of     *)
(* bytes that holds none of them.                                          *)
(***************************************************************************)
EXTENDS Integers, Sequences, FiniteSets, TLC

\* ------------------------------------------------------------------ bounds

\* connections the accept loop accepts in one run
MaxConns == 2

\* the longest request handling time the clock reports
MaxDuration == 1

\* the recv() results the bytes of one client are cut into
MaxReads == 3

\* the successive calls of the readers on one connection
MaxCalls == 2

\* the largest amount read_amount is asked for
MaxAmount == 2

\* the segments, separated by "; ", of a Cookie header
MaxSegments == 2

\* the requests whose handling time is recorded one after the other
MaxRecords == 3

\* the significant bits of a float (53 in CPython)
MantissaBits == 3

\* the largest handling time, in clock ticks, recorded as a float
MaxTicks == 7

\* ------------------------------------------------------- program constants

\* the thread of the accept loop; the worker of connection c is thread c
MainThread == 0

Conns == 1..MaxConns

Durations == 0..MaxDuration

\* stats.lock is free
NoOwner == <<>>

ERR_SOCKET_WAS_CLOSED == [err |-> "Connection Closed"]

ERR_SOCKET_HAD_TIMEOUT == [err |-> "Read Timeout"]

ERR_SOCKET_HAD_ERROR == [err |-> "Read/Write Failure"]

SocketErrors == {ERR_SOCKET_WAS_CLOSED, ERR_SOCKET_HAD_TIMEOUT, ERR_SOCKET_HAD_ERROR}

\* the values SOCKET_TIMEOUT is configured with: None, or a number of seconds
TimeoutSettings == {"None", "10.0"}

\* Python's None
None == [none |-> TRUE]

\* a str or bytes value that some variable holds in place of None or an error
Str(s) == [text |-> s]

\* the blank line that ends a request head
BlankLine == <<"\r", "\n", "\r", "\n">>

CRLF == <<"\r", "\n">>

\* ------------------------------------------------------------ text helpers

\* bytes.decode() fails on a byte sequence that is not UTF-8
Undecodable == {"\\xff"}

CanDecode(bytes) == \A i \in 1..Len(bytes) : bytes[i] \notin Undecodable

\* str.lower() of one atom
LowerAtom(a) ==
    CASE a = "Content-Length" -> "content-length"
      [] a = "Transfer-Encoding" -> "transfer-encoding"
      [] a = "Cookie" -> "cookie"
      [] a = "CONTENT-LENGTH" -> "content-length"
      [] OTHER -> a

Lower(s) == [i \in 1..Len(s) |-> LowerAtom(s[i])]

StartsWith(s, p) == Len(p) <= Len(s) /\ SubSeq(s, 1, Len(p)) = p

\* the index of the first occurrence of the sequence p in s, 0 if there is none
Find(s, p) ==
    LET hits == {i \in 1..(Len(s) - Len(p) + 1) : SubSeq(s, i, i + Len(p) - 1) = p}
    IN  IF hits = {} THEN 0 ELSE CHOOSE i \in hits : \A j \in hits : i <= j

\* str.splitlines(): lines end at "\r\n", "\r" or "\n"; no empty last line
RECURSIVE SplitLinesFrom(_, _, _)
SplitLinesFrom(s, i, cur) ==
    IF i > Len(s) THEN (IF cur = <<>> THEN <<>> ELSE <<cur>>)
    ELSE IF s[i] = "\r" /\ i < Len(s) /\ s[i + 1] = "\n"
         THEN <<cur>> \o SplitLinesFrom(s, i + 2, <<>>)
    ELSE IF s[i] = "\r" \/ s[i] = "\n"
         THEN <<cur>> \o SplitLinesFrom(s, i + 1, <<>>)
    ELSE SplitLinesFrom(s, i + 1, Append(cur, s[i]))

splitlines(s) == SplitLinesFrom(s, 1, <<>>)

Whitespace == {" ", "\r", "\n", "\t"}

\* str.split(): the maximal runs of non-whitespace
RECURSIVE SplitWordsFrom(_, _, _)
SplitWordsFrom(s, i, cur) ==
    IF i > Len(s) THEN (IF cur = <<>> THEN <<>> ELSE <<cur>>)
    ELSE IF s[i] \in Whitespace
         THEN (IF cur = <<>> THEN <<>> ELSE <<cur>>) \o SplitWordsFrom(s, i + 1, <<>>)
    ELSE SplitWordsFrom(s, i + 1, Append(cur, s[i]))

split(s) == SplitWordsFrom(s, 1, <<>>)

\* str.strip() as int() applies it
RECURSIVE Strip(_)
Strip(s) ==
    IF s = <<>> THEN s
    ELSE IF Head(s) \in Whitespace THEN Strip(Tail(s))
    ELSE IF s[Len(s)] \in Whitespace THEN Strip(SubSeq(s, 1, Len(s) - 1))
    ELSE s

DigitValue(a) ==
    CASE a = "0" -> 0
      [] a = "1" -> 1
      [] a = "2" -> 2
      [] a = "3" -> 3
      [] OTHER -> -1

\* int(n): the value of a decimal numeral, None (a ValueError) for anything else
RECURSIVE DecimalValue(_)
DecimalValue(s) ==
    IF Len(s) = 1 THEN DigitValue(s[1])
    ELSE 10 * DecimalValue(SubSeq(s, 1, Len(s) - 1)) + DigitValue(s[Len(s)])

IsNumeral(s) ==
    LET t == Strip(s) IN t # <<>> /\ \A i \in 1..Len(t) : DigitValue(t[i]) >= 0

\* urllib.parse.unquote() of one atom
UnquoteAtom(a) ==
    CASE a = "/hell%6F" -> "/hello"
      [] a = "/%73tatus" -> "/status"
      [] OTHER -> a

unquote(s) == [i \in 1..Len(s) |-> UnquoteAtom(s[i])]

\* lines 366-372: only the part of the path before the first "?" is unquoted
DecodePath(path) ==
    LET q == Find(path, <<"?">>)
    IN  IF q # 0
        THEN unquote(SubSeq(path, 1, q - 1)) \o <<"?">> \o SubSeq(path, q + 1, Len(path))
        ELSE unquote(path)

\* get_header_value(): the first header "key: value", the name in any case
RECURSIVE get_header_value(_, _)
get_header_value(headers, key) ==
    IF headers = <<>> THEN None
    ELSE LET hdr == Head(headers)
         IN  IF StartsWith(Lower(hdr), Lower(key) \o <<":", " ">>)
             THEN Str(SubSeq(hdr, Find(hdr, <<" ">>) + 1, Len(hdr)))
             ELSE get_header_value(Tail(headers), key)

\* ------------------------------------------------------------- the socket

\* What one sock.recv() gives: some bytes (none: the peer closed the socket),
\* or the exception socket.timeout, or another exception.
RecvBytes(b) == [kind |-> "bytes", bytes |-> b]

RecvClosed == RecvBytes(<<>>)

RecvTimeout == [kind |-> "timeout", bytes |-> <<>>]

RecvFault == [kind |-> "fault", bytes |-> <<>>]

\* a call that waits for a recv() the script does not hold
Blocked == [blocked |-> TRUE]

\* A reader that forgets the bytes it received after the blank line.
RECURSIVE ReadUntilBlankLineDropsRest(_, _)
ReadUntilBlankLineDropsRest(data, script) ==
    LET k == Find(data, BlankLine)
    IN  IF k # 0
        THEN LET part == SubSeq(data, 1, k - 1)
             IN  IF CanDecode(part)
                 THEN [ret |-> Str(part), leftover_data |-> <<>>, unread |-> script]
                 ELSE [ret |-> ERR_SOCKET_HAD_ERROR, leftover_data |-> part,
                       unread |-> script]
        ELSE IF script = <<>>
        THEN [ret |-> Blocked, leftover_data |-> data, unread |-> script]
        ELSE LET more_data == Head(script)
             IN  IF more_data.kind = "timeout"
                 THEN [ret |-> ERR_SOCKET_HAD_TIMEOUT, leftover_data |-> data,
                       unread |-> Tail(script)]
                 ELSE IF more_data.kind = "fault"
                 THEN [ret |-> ERR_SOCKET_HAD_ERROR, leftover_data |-> data,
                       unread |-> Tail(script)]
                 ELSE IF more_data.bytes = <<>>
                 THEN [ret |-> ERR_SOCKET_WAS_CLOSED, leftover_data |-> data,
                       unread |-> Tail(script)]
                 ELSE ReadUntilBlankLineDropsRest(data \o more_data.bytes, Tail(script))

\* Connection.read_until_blank_line(), with `script` the results of the
\* successive recv() calls: what it returns, what it leaves in leftover_data,
\* and the recv() results it did not ask for.
RECURSIVE read_until_blank_line(_, _)
read_until_blank_line(data, script) ==
    LET k == Find(data, BlankLine)
    IN  IF k # 0
        THEN LET part == SubSeq(data, 1, k - 1)
                 rest == SubSeq(data, k + Len(BlankLine), Len(data))
             IN  IF CanDecode(part)
                 THEN [ret |-> Str(part), leftover_data |-> rest, unread |-> script]
                 ELSE [ret |-> ERR_SOCKET_HAD_ERROR, leftover_data |-> part,
                       unread |-> script]
        ELSE IF script = <<>>
        THEN [ret |-> Blocked, leftover_data |-> data, unread |-> script]
        ELSE LET more_data == Head(script)
             IN  IF more_data.kind = "timeout"
                 THEN [ret |-> ERR_SOCKET_HAD_TIMEOUT, leftover_data |-> data,
                       unread |-> Tail(script)]
                 ELSE IF more_data.kind = "fault"
                 THEN [ret |-> ERR_SOCKET_HAD_ERROR, leftover_data |-> data,
                       unread |-> Tail(script)]
                 ELSE IF more_data.bytes = <<>>
                 THEN [ret |-> ERR_SOCKET_WAS_CLOSED, leftover_data |-> data,
                       unread |-> Tail(script)]
                 ELSE read_until_blank_line(data \o more_data.bytes, Tail(script))

\* Connection.read_amount(n), with `script` the results of the successive
\* recv(n - len(data)) calls
RECURSIVE read_amount(_, _, _)
read_amount(data, n, script) ==
    IF Len(data) >= n
    THEN LET part == SubSeq(data, 1, n)
             rest == SubSeq(data, n + 1, Len(data))
         IN  IF CanDecode(part)
             THEN [ret |-> Str(part), leftover_data |-> rest, unread |-> script]
             ELSE [ret |-> None, leftover_data |-> part, unread |-> script]
    ELSE IF script = <<>>
    THEN [ret |-> Blocked, leftover_data |-> data, unread |-> script]
    ELSE LET more_data == Head(script)
         IN  IF more_data.kind # "bytes" \/ more_data.bytes = <<>>
             THEN [ret |-> None, leftover_data |-> data, unread |-> Tail(script)]
             ELSE IF Len(more_data.bytes) > n - Len(data)
             THEN [ret |-> Blocked, leftover_data |-> data, unread |-> script]
             ELSE read_amount(data \o more_data.bytes, n, Tail(script))

\* ------------------------------------------------------------ the clients

RequestLine(method, path) == <<method, " ">> \o path \o <<" ", "HTTP/1.1">>

Header(name, value) == CRLF \o <<name, ":", " ">> \o value

\* The byte streams a client sends: a request head, its blank line, its body.
Messages ==
    { RequestLine("GET", <<"/%73tatus">>) \o BlankLine,
      RequestLine("GET", <<"/hell%6F">>) \o BlankLine,
      RequestLine("GET", <<"/quote">>) \o BlankLine,
      RequestLine("GET", <<"/index.html", "?", "q=%41">>)
          \o Header("Content-Length", <<"0">>) \o BlankLine,
      RequestLine("POST", <<"/form">>)
          \o Header("CONTENT-LENGTH", <<"2">>) \o BlankLine \o <<"a", "b">>,
      RequestLine("GET", <<"/hello">>) \o <<" ", "extra">> \o BlankLine,
      <<"GET", " ", "/foo">> \o BlankLine,
      BlankLine,
      RequestLine("GET", <<"/hello">>) \o Header("Transfer-Encoding", <<"chunked">>)
          \o Header("Content-Length", <<"2">>) \o BlankLine,
      RequestLine("GET", <<"/hello">>) \o Header("Content-Length", <<"x">>)
          \o BlankLine,
      RequestLine("GET", <<"/hello">>) \o Header("Transfer-Encoding", <<"gzip">>)
          \o Header("Transfer-Encoding", <<"chunked">>) \o BlankLine,
      RequestLine("GET", <<"\\xff">>) \o BlankLine }

\* where the bytes of a message may be cut into recv() results: after its
\* first byte, inside its blank line, at the end of its head, inside its body
CutPoints(m) ==
    LET d == Find(m, BlankLine)
    IN  {k \in {1, d + 1, d + 3, d + 4, Len(m)} : k <= Len(m)}

\* The recv() results a call of read_until_blank_line may meet: a message in
\* one or two pieces, and a peer that closes, stalls or fails, at once or
\* after the first byte of a request.
HeadScripts ==
    UNION { { <<RecvBytes(SubSeq(m, 1, k))>> : k \in CutPoints(m) }
            \cup { <<RecvBytes(SubSeq(m, 1, j)), RecvBytes(SubSeq(m, j + 1, k))>> :
                   <<j, k>> \in {jk \in CutPoints(m) \X CutPoints(m) : jk[1] < jk[2]} }
          : m \in Messages }
    \cup { <<r>> : r \in {RecvClosed, RecvTimeout, RecvFault} }
    \cup { <<RecvBytes(<<"GET">>), r>> : r \in {RecvClosed, RecvTimeout, RecvFault} }

BodyChunks == {<<"a">>, <<"a", "b">>}

\* The recv() results a call of read_amount may meet.
BodyScripts ==
    {<<>>, <<RecvClosed>>, <<RecvFault>>}
    \cup { <<RecvBytes(b)>> : b \in BodyChunks }
    \cup { <<RecvBytes(b), r>> :
           <<b, r>> \in BodyChunks \X {RecvBytes(<<"b">>), RecvClosed, RecvFault} }

\* ---------------------------------------------------------------- state

VARIABLES
    SOCKET_TIMEOUT,  \* the configured read timeout, "None" for none
    stats,           \* the Statistics object
    lock,            \* stats.lock: <<>> when free, <<t>> when thread t holds it
    main_pc,         \* where the accept loop is
    accepted,        \* the number of worker threads started
    pc,              \* where the worker of each connection is
    conn,            \* the Connection object of each connection
    frame,           \* the local variables of each worker
    hist             \* what each worker has done so far (history)

vars == <<SOCKET_TIMEOUT, stats, lock, main_pc, accepted, pc, conn, frame, hist>>

\* tot_time / num_requests, as the fraction <<numerator, denominator>> in
\* lowest terms
RECURSIVE GCD(_, _)
GCD(a, b) == IF b = 0 THEN a ELSE GCD(b, a % b)

Fraction(a, b) == LET g == GCD(a, b) IN <<a \div g, b \div g>>

\* Statistics.__init__
NewStatistics ==
    [ total_connections |-> 0, active_connections |-> 0, num_requests |-> 0,
      num_errors |-> 0, max_time |-> 0, tot_time |-> 0, avg_time |-> <<0, 1>> ]

\* Request.__init__
NewRequest ==
    [ method |-> <<>>, path |-> <<>>, version |-> <<>>, headers |-> <<>>,
      length |-> 0, body |-> None ]

\* Response.__init__
Response(code, mime_type, body) ==
    [ code |-> code, mime_type |-> mime_type, body |-> body, cookies |-> None ]

\* Connection.__init__
NewConnection ==
    [ leftover_data |-> <<>>, num_requests |-> 0, sock_open |-> TRUE,
      sock_timeout |-> "None" ]

\* the locals of handle_http_connection and handle_one_http_request
NoFrame ==
    [ req |-> None, resp |-> None, duration |-> 0, snap |-> <<>> ]

NoHistory ==
    [ opened |-> 0,          \* times active_connections was incremented
      closed |-> 0,          \* times active_connections was decremented
      sock_closes |-> 0,     \* times conn.sock.close() ran
      first_recv |-> "none", \* what the first recv() gave
      head |-> None,         \* the head read_until_blank_line returned
      body_reads |-> 0,      \* calls of read_amount
      body_closed |-> FALSE, \* the peer closed the socket during read_amount
      dispatches |-> 0,      \* times the method and path were routed
      failed |-> "no",       \* the step that raised an exception
      tallies |-> 0,         \* times num_errors was incremented
      completions |-> 0,     \* times num_requests was incremented
      codes |-> <<>>,        \* the codes send_http_response was called with
      responses |-> <<>>,    \* the responses send_http_response was called with
      sent |-> <<>> ]        \* what sendall() wrote to the socket

Init ==
    /\ SOCKET_TIMEOUT \in TimeoutSettings
    /\ stats = NewStatistics
    /\ lock = NoOwner
    /\ main_pc = "accept"
    /\ accepted = 0
    /\ pc = [c \in Conns |-> "idle"]
    /\ conn = [c \in Conns |-> NewConnection]
    /\ frame = [c \in Conns |-> NoFrame]
    /\ hist = [c \in Conns |-> NoHistory]

\* ------------------------------------------------------------- stats.lock

\* A lock that is taken without waiting for its holder to release it.
AcquireNoWait(t) == lock' = <<t>>

\* entering "with stats.lock:" waits until no thread holds the lock
Acquire(t) == lock = NoOwner /\ lock' = <<t>>

\* leaving "with stats.lock:"
Release(t) == lock' = NoOwner

\* the Statistics fields the step at a program position reads or writes
Accesses(p) ==
    CASE p = "count_cs" -> {"total_connections"}
      [] p = "open_cs" -> {"active_connections"}
      [] p = "status_cs" -> {"total_connections", "active_connections", "num_requests",
                             "num_errors", "avg_time", "max_time"}
      [] p = "error_cs" -> {"num_errors"}
      [] p = "tally_requests" -> {"num_requests"}
      [] p = "tally_total" -> {"tot_time"}
      [] p = "tally_average" -> {"avg_time", "tot_time", "num_requests"}
      [] p = "tally_max" -> {"max_time"}
      [] p = "close_cs" -> {"active_connections"}
      [] OTHER -> {}

\* ------------------------------------------------------- the accept loop

\* line 653: s.accept() returns a new client socket
Accept ==
    /\ main_pc = "accept"
    /\ accepted < MaxConns
    /\ main_pc' = "accepted"
    /\ UNCHANGED <<SOCKET_TIMEOUT, stats, lock, accepted, pc, conn, frame, hist>>

\* line 655
CountAcquire ==
    /\ main_pc = "accepted"
    /\ Acquire(MainThread)
    /\ main_pc' = "count_cs"
    /\ UNCHANGED <<SOCKET_TIMEOUT, stats, accepted, pc, conn, frame, hist>>

\* An accept loop that starts the worker without counting the connection.
CountConnectionSkipped ==
    /\ main_pc = "count_cs"
    /\ Release(MainThread)
    /\ main_pc' = "spawn"
    /\ UNCHANGED <<SOCKET_TIMEOUT, stats, accepted, pc, conn, frame, hist>>

\* line 656, and the end of the with block
CountConnection ==
    /\ main_pc = "count_cs"
    /\ stats' = [stats EXCEPT !.total_connections = @ + 1]
    /\ Release(MainThread)
    /\ main_pc' = "spawn"
    /\ UNCHANGED <<SOCKET_TIMEOUT, accepted, pc, conn, frame, hist>>

\* lines 658-662: the Connection object and its worker thread
Spawn ==
    /\ main_pc = "spawn"
    /\ accepted' = accepted + 1
    /\ conn' = [conn EXCEPT ![accepted + 1] = NewConnection]
    /\ pc' = [pc EXCEPT ![accepted + 1] = "start"]
    /\ main_pc' = "accept"
    /\ UNCHANGED <<SOCKET_TIMEOUT, stats, lock, frame, hist>>

\* ------------------------------------------------- handle_one_http_request

TextPlain == Str(<<"text/plain">>)

TextHtml == Str(<<"text/html">>)

Ok200 == <<"200", " ", "OK">>

BadRequest400 == <<"400", " ", "BAD REQUEST">>

Forbidden403 == <<"403", " ", "FORBIDDEN">>

NotFound404 == <<"404", " ", "NOT FOUND">>

NotAllowed405 == <<"405", " ", "METHOD NOT ALLOWED">>

LengthRequired411 == <<"411", " ", "LENGTH REQUIRED">>

\* lines 323-332: the three results of read_until_blank_line that end the call
IsReadFailure(data) == data \in SocketErrors

\* line 344
MissingRequestLine(lines) == Len(lines) = 0

\* A check that only refuses request lines that are too short.
MalformedRequestLineTooShort(words) == Len(words) < 3

\* line 354
MalformedRequestLine(words) == Len(words) # 3

\* line 375
IsChunked(headers) ==
    get_header_value(headers, <<"Transfer-Encoding">>) = Str(<<"chunked">>)

\* Lines 342-387, from the head text to the step that follows: "send" a
\* response made here, "read_body", "dispatch", or "raise" (int(n) fails).
ParseRequest(text) ==
    LET lines == splitlines(text)
    IN  IF MissingRequestLine(lines)
        THEN [ next |-> "send", req |-> NewRequest,
               resp |-> Response(BadRequest400, TextPlain,
                                 Str(<<"You need a request-line!">>)) ]
        ELSE
        LET request_line == lines[1]
            headers == Tail(lines)
            words == split(request_line)
        IN  IF MalformedRequestLine(words)
            THEN [ next |-> "send", req |-> [NewRequest EXCEPT !.headers = headers],
                   resp |-> Response(BadRequest400, TextPlain,
                                     Str(<<"Your request-line is malformed!">>)) ]
            ELSE
            LET req == [ method |-> words[1], path |-> DecodePath(words[2]),
                         version |-> words[3], headers |-> headers,
                         length |-> 0, body |-> None ]
                n == get_header_value(headers, <<"Content-Length">>)
            IN  IF IsChunked(headers)
                THEN [ next |-> "send", req |-> req,
                       resp |-> Response(LengthRequired411, TextPlain,
                           Str(<<"Your request uses chunked transfer encoding, sorry!">>)) ]
                ELSE IF n = None
                THEN [next |-> "dispatch", req |-> req, resp |-> None]
                ELSE IF ~IsNumeral(n.text)
                THEN [next |-> "raise", req |-> req, resp |-> None]
                ELSE [ next |-> "read_body",
                       req |-> [req EXCEPT !.length = DecimalValue(Strip(n.text))],
                       resp |-> None ]

\* handle_http_get_hello
HelloResponses == {Response(Ok200, TextPlain, Str(<<"Welcome, World!">>))}

\* handle_http_get_quote: open('quotations.txt') raises when the file is missing
QuoteResponses == {Response(Ok200, TextHtml, Str(<<"<html>", "quote", "</html>">>)), None}

\* handle_http_get_file: what it answers depends on the files on disk
FileResponses(url_path) ==
    { Response(Forbidden403, TextPlain, Str(<<"Permission denied: ">> \o url_path)),
      Response(NotFound404, TextPlain, Str(<<"No such file: ">> \o url_path)),
      Response(Ok200, TextHtml, Str(<<"<html>", "</html>">>)) }

\* lines 389-401 and handle_http_get, but for GET /status: the responses the
\* handlers may give, None standing for an exception a handler raises
Route(req) ==
    IF req.method = <<"GET">>
    THEN IF req.path = <<"/hello">> THEN HelloResponses
         ELSE IF req.path = <<"/quote">> THEN QuoteResponses
         ELSE FileResponses(req.path)
    ELSE IF req.method = <<"POST">> \/ req.method = <<"PUT">>
    THEN {Response(NotAllowed405, TextPlain,
                   Str(<<"PUT and POST methods not yet supported">>))}
    ELSE {Response(NotAllowed405, TextPlain,
                   Str(<<"Unrecognized method: ">> \o req.method))}

IsStatusRequest(req) == req.method = <<"GET">> /\ req.path = <<"/status">>

\* handle_http_get_status reads these fields, in this order
StatusFields ==
    << "total_connections", "active_connections", "num_requests", "num_errors",
       "avg_time", "max_time" >>

\* A test that has lost its negation.
IsErrorInverted(code) == StartsWith(code, <<"200", " ">>)

\* line 412
IsError(code) == ~StartsWith(code, <<"200", " ">>)

\* a bytes object
Raw(bytes) == [raw |-> bytes]

\* str.encode(): UTF-8 takes two bytes for U+00E9 and one for an ASCII character
RECURSIVE encode(_)
encode(text) ==
    IF text = <<>> THEN <<>>
    ELSE (IF Head(text) = "\\u00e9" THEN <<"\\xc3", "\\xa9">> ELSE <<Head(text)>>)
             \o encode(Tail(text))

\* str(): of the values a body may be that are neither bytes nor str, None
str(value) == <<"None">>

\* lines 426-437: the body as bytes (in the field text), None when no mime
\* type is set
CoercedBody(resp) ==
    IF resp.mime_type = None THEN None
    ELSE IF "raw" \in DOMAIN resp.body THEN Str(resp.body.raw)
    ELSE IF "text" \in DOMAIN resp.body THEN Str(encode(resp.body.text))
    ELSE Str(encode(str(resp.body)))

\* A head whose Content-Length counts the characters of the body given.
ResponseHeadCountsCharacters(resp) ==
    [ part |-> "head", code |-> resp.code, content_type |-> resp.mime_type,
      content_length |->
          IF resp.mime_type = None THEN 0
          ELSE IF "raw" \in DOMAIN resp.body THEN Len(resp.body.raw)
          ELSE IF "text" \in DOMAIN resp.body THEN Len(resp.body.text)
          ELSE Len(str(resp.body)) ]

\* lines 416-439: the response line and the headers that depend on the response
ResponseHead(resp) ==
    [ part |-> "head", code |-> resp.code, content_type |-> resp.mime_type,
      content_length |-> IF resp.mime_type = None THEN 0 ELSE Len(CoercedBody(resp).text) ]

\* ------------------------------------------------------------ the workers

\* what the first recv() of a script gave
FirstRecv(script) ==
    IF script = <<>> THEN "none"
    ELSE IF Head(script) = RecvClosed THEN "closed"
    ELSE Head(script).kind

\* An exception that ends the thread with no finally clause run.
RaiseNoFinally(c, step) ==
    /\ pc' = [pc EXCEPT ![c] = "done"]
    /\ frame' = [frame EXCEPT ![c] = NoFrame]
    /\ hist' = [hist EXCEPT ![c].failed = step]

\* an exception leaves handle_one_http_request: the try block of
\* handle_http_connection is left for its finally clause (line 586)
Raise(c, step) ==
    /\ pc' = [pc EXCEPT ![c] = "finally"]
    /\ frame' = [frame EXCEPT ![c] = NoFrame]
    /\ hist' = [hist EXCEPT ![c].failed = step]

\* line 567
OpenAcquire(c) ==
    /\ pc[c] = "start"
    /\ Acquire(c)
    /\ pc' = [pc EXCEPT ![c] = "open_cs"]
    /\ UNCHANGED <<SOCKET_TIMEOUT, stats, main_pc, accepted, conn, frame, hist>>

\* line 568, and the end of the with block
OpenConnection(c) ==
    /\ pc[c] = "open_cs"
    /\ stats' = [stats EXCEPT !.active_connections = @ + 1]
    /\ Release(c)
    /\ hist' = [hist EXCEPT ![c].opened = @ + 1]
    /\ pc' = [pc EXCEPT ![c] = "read_head"]
    /\ UNCHANGED <<SOCKET_TIMEOUT, main_pc, accepted, conn, frame>>

\* A session that takes a closed socket for an empty head.
AfterHeadClosedAsEmpty(data) ==
    IF data \in {ERR_SOCKET_HAD_TIMEOUT, ERR_SOCKET_HAD_ERROR}
    THEN [next |-> "returned", req |-> None, resp |-> None]
    ELSE ParseRequest(IF data = ERR_SOCKET_WAS_CLOSED THEN <<>> ELSE data.text)

\* A session that returns without a word when the request line is bad.
AfterHeadSilentOnBadRequest(data) ==
    IF IsReadFailure(data)
    THEN [next |-> "returned", req |-> None, resp |-> None]
    ELSE IF ParseRequest(data.text).next = "send"
              /\ ParseRequest(data.text).resp.code = BadRequest400
    THEN [next |-> "returned", req |-> None, resp |-> None]
    ELSE ParseRequest(data.text)

\* What follows the return of read_until_blank_line, lines 323-386: the call
\* returns at once ("returned") or goes on as ParseRequest says.
AfterHead(data) ==
    IF IsReadFailure(data)
    THEN [next |-> "returned", req |-> None, resp |-> None]
    ELSE ParseRequest(data.text)

\* lines 321 and 178-182: handle_one_http_request calls read_until_blank_line,
\* which sets the timeout of the socket when one is configured
EnterReadHead(c) ==
    /\ pc[c] = "read_head"
    /\ conn' = [conn EXCEPT ![c].sock_timeout = SOCKET_TIMEOUT]
    /\ pc' = [pc EXCEPT ![c] = "recv_head"]
    /\ UNCHANGED <<SOCKET_TIMEOUT, stats, lock, main_pc, accepted, frame, hist>>

\* A reader that removes the timeout after its loop instead of in a finally
\* clause.
ReadHeadResetsAfterLoop(c) ==
    /\ pc[c] = "recv_head"
    /\ \E script \in HeadScripts :
         /\ SOCKET_TIMEOUT = "None" => \A i \in 1..Len(script) : script[i] # RecvTimeout
         /\ \E r \in {read_until_blank_line(conn[c].leftover_data, script)} :
              /\ r.ret # Blocked
              /\ r.unread = <<>>
              /\ conn' = [conn EXCEPT ![c].leftover_data = r.leftover_data,
                                      ![c].sock_timeout =
                                          IF IsReadFailure(r.ret) THEN @ ELSE "None"]
              /\ \E p \in {AfterHead(r.ret)} :
                   /\ pc' = [pc EXCEPT ![c] = IF p.next = "raise" THEN "finally" ELSE p.next]
                   /\ frame' = [frame EXCEPT ![c] =
                                    IF p.next = "raise" THEN NoFrame
                                    ELSE [@ EXCEPT !.req = p.req, !.resp = p.resp]]
                   /\ hist' = [hist EXCEPT ![c].first_recv = FirstRecv(script),
                                           ![c].head = r.ret,
                                           ![c].failed =
                                               IF p.next = "raise" THEN "parse" ELSE @]
    /\ UNCHANGED <<SOCKET_TIMEOUT, stats, lock, main_pc, accepted>>

\* Lines 184-207 and 322-386: the recv() results read_until_blank_line meets,
\* its finally clause, which removes the timeout, and the parsing of the head
\* it returns. recv() raises socket.timeout only when a timeout is set.
ReadHead(c) ==
    /\ pc[c] = "recv_head"
    /\ \E script \in HeadScripts :
         /\ SOCKET_TIMEOUT = "None" => \A i \in 1..Len(script) : script[i] # RecvTimeout
         /\ \E r \in {read_until_blank_line(conn[c].leftover_data, script)} :
              /\ r.ret # Blocked
              /\ r.unread = <<>>
              /\ conn' = [conn EXCEPT ![c].leftover_data = r.leftover_data,
                                      ![c].sock_timeout = "None"]
              /\ \E p \in {AfterHead(r.ret)} :
                   /\ pc' = [pc EXCEPT ![c] = IF p.next = "raise" THEN "finally" ELSE p.next]
                   /\ frame' = [frame EXCEPT ![c] =
                                    IF p.next = "raise" THEN NoFrame
                                    ELSE [@ EXCEPT !.req = p.req, !.resp = p.resp]]
                   /\ hist' = [hist EXCEPT ![c].first_recv = FirstRecv(script),
                                           ![c].head = r.ret,
                                           ![c].failed =
                                               IF p.next = "raise" THEN "parse" ELSE @]
    /\ UNCHANGED <<SOCKET_TIMEOUT, stats, lock, main_pc, accepted>>

\* line 387: the call of read_amount, with the recv() results it meets
ReadBody(c) ==
    /\ pc[c] = "read_body"
    /\ \E script \in BodyScripts :
         \E r \in {read_amount(conn[c].leftover_data, frame[c].req.length, script)} :
             /\ r.ret # Blocked
             /\ r.unread = <<>>
             /\ conn' = [conn EXCEPT ![c].leftover_data = r.leftover_data]
             /\ frame' = [frame EXCEPT ![c].req.body = r.ret]
             /\ hist' = [hist EXCEPT ![c].body_reads = @ + 1,
                                     ![c].body_closed =
                                         script # <<>> /\ script[Len(script)] = RecvClosed]
    /\ pc' = [pc EXCEPT ![c] = "dispatch"]
    /\ UNCHANGED <<SOCKET_TIMEOUT, stats, lock, main_pc, accepted>>

\* lines 390-391 and 554-555 for GET /status, up to line 458
DispatchStatus(c) ==
    /\ pc[c] = "dispatch"
    /\ IsStatusRequest(frame[c].req)
    /\ Acquire(c)
    /\ pc' = [pc EXCEPT ![c] = "status_cs"]
    /\ hist' = [hist EXCEPT ![c].dispatches = @ + 1]
    /\ UNCHANGED <<SOCKET_TIMEOUT, stats, main_pc, accepted, conn, frame>>

\* lines 459-464, one read of a Statistics field at a time
StatusRead(c) ==
    /\ pc[c] = "status_cs"
    /\ Len(frame[c].snap) < Len(StatusFields)
    /\ frame' = [frame EXCEPT ![c].snap =
                     Append(@, stats[StatusFields[Len(frame[c].snap) + 1]])]
    /\ UNCHANGED <<SOCKET_TIMEOUT, stats, lock, main_pc, accepted, pc, conn, hist>>

\* A status handler that acquires stats.lock and returns without releasing it.
StatusReleaseKeepsLock(c) ==
    /\ pc[c] = "status_cs"
    /\ Len(frame[c].snap) = Len(StatusFields)
    /\ lock' = lock
    /\ frame' = [frame EXCEPT ![c].snap = <<>>, ![c].req = None,
                     ![c].resp = Response(Ok200, TextPlain, Str(<<"Server Statistics">>))]
    /\ pc' = [pc EXCEPT ![c] = "send"]
    /\ UNCHANGED <<SOCKET_TIMEOUT, stats, main_pc, accepted, conn, hist>>

\* the end of the with block of line 458, and lines 465-469; the text of the
\* report is left out of the body
StatusRelease(c) ==
    /\ pc[c] = "status_cs"
    /\ Len(frame[c].snap) = Len(StatusFields)
    /\ Release(c)
    /\ frame' = [frame EXCEPT ![c].snap = <<>>, ![c].req = None,
                     ![c].resp = Response(Ok200, TextPlain, Str(<<"Server Statistics">>))]
    /\ pc' = [pc EXCEPT ![c] = "send"]
    /\ UNCHANGED <<SOCKET_TIMEOUT, stats, main_pc, accepted, conn, hist>>

\* lines 389-401 for every other request
Dispatch(c) ==
    /\ pc[c] = "dispatch"
    /\ ~IsStatusRequest(frame[c].req)
    /\ \E resp \in Route(frame[c].req) :
         IF resp = None
         THEN /\ pc' = [pc EXCEPT ![c] = "finally"]
              /\ frame' = [frame EXCEPT ![c] = NoFrame]
              /\ hist' = [hist EXCEPT ![c].dispatches = @ + 1, ![c].failed = "dispatch"]
         ELSE /\ pc' = [pc EXCEPT ![c] = "send"]
              /\ frame' = [frame EXCEPT ![c].req = None, ![c].resp = resp]
              /\ hist' = [hist EXCEPT ![c].dispatches = @ + 1]
    /\ UNCHANGED <<SOCKET_TIMEOUT, stats, lock, main_pc, accepted, conn>>

\* lines 412-413, for a response that is tallied as an error
SendTally(c) ==
    /\ pc[c] = "send"
    /\ IsError(frame[c].resp.code)
    /\ Acquire(c)
    /\ hist' = [hist EXCEPT ![c].codes = Append(@, frame[c].resp.code),
                             ![c].responses = Append(@, frame[c].resp)]
    /\ pc' = [pc EXCEPT ![c] = "error_cs"]
    /\ UNCHANGED <<SOCKET_TIMEOUT, stats, main_pc, accepted, conn, frame>>

\* line 414, and the end of the with block
SendCountError(c) ==
    /\ pc[c] = "error_cs"
    /\ stats' = [stats EXCEPT !.num_errors = @ + 1]
    /\ Release(c)
    /\ hist' = [hist EXCEPT ![c].tallies = @ + 1]
    /\ pc' = [pc EXCEPT ![c] = "send_head"]
    /\ UNCHANGED <<SOCKET_TIMEOUT, main_pc, accepted, conn, frame>>

\* A sender that tallies the responses that are no errors as well.
SendNoTallyCounted(c) ==
    /\ pc[c] = "send"
    /\ ~IsError(frame[c].resp.code)
    /\ stats' = [stats EXCEPT !.num_errors = @ + 1]
    /\ hist' = [hist EXCEPT ![c].codes = Append(@, frame[c].resp.code),
                             ![c].responses = Append(@, frame[c].resp)]
    /\ pc' = [pc EXCEPT ![c] = "send_head"]
    /\ UNCHANGED <<SOCKET_TIMEOUT, lock, main_pc, accepted, conn, frame>>

\* line 412, for a response that is not
SendNoTally(c) ==
    /\ pc[c] = "send"
    /\ ~IsError(frame[c].resp.code)
    /\ hist' = [hist EXCEPT ![c].codes = Append(@, frame[c].resp.code),
                             ![c].responses = Append(@, frame[c].resp)]
    /\ pc' = [pc EXCEPT ![c] = "send_head"]
    /\ UNCHANGED <<SOCKET_TIMEOUT, stats, lock, main_pc, accepted, conn, frame>>

\* lines 416-443: sendall() writes the response line and the headers, or raises
SendHead(c) ==
    /\ pc[c] = "send_head"
    /\ \/ /\ hist' = [hist EXCEPT ![c].sent = Append(@, ResponseHead(frame[c].resp))]
          /\ IF CoercedBody(frame[c].resp) # None
             THEN pc' = [pc EXCEPT ![c] = "send_body"] /\ frame' = frame
             ELSE pc' = [pc EXCEPT ![c] = "returned"]
                  /\ frame' = [frame EXCEPT ![c] = NoFrame]
       \/ Raise(c, "send")
    /\ UNCHANGED <<SOCKET_TIMEOUT, stats, lock, main_pc, accepted, conn>>

\* lines 444-449: sendall() writes the body, or raises
SendBody(c) ==
    /\ pc[c] = "send_body"
    /\ \/ /\ hist' = [hist EXCEPT ![c].sent =
                          Append(@, [part |-> "body", bytes |-> CoercedBody(frame[c].resp).text])]
          /\ pc' = [pc EXCEPT ![c] = "returned"]
          /\ frame' = [frame EXCEPT ![c] = NoFrame]
       \/ Raise(c, "send")
    /\ UNCHANGED <<SOCKET_TIMEOUT, stats, lock, main_pc, accepted, conn>>

\* lines 574-580: handle_one_http_request has returned
RequestDone(c) ==
    /\ pc[c] = "returned"
    /\ \E duration \in Durations : frame' = [frame EXCEPT ![c].duration = duration]
    /\ conn' = [conn EXCEPT ![c].num_requests = @ + 1]
    /\ Acquire(c)
    /\ pc' = [pc EXCEPT ![c] = "tally_requests"]
    /\ UNCHANGED <<SOCKET_TIMEOUT, stats, main_pc, accepted, hist>>

\* line 581
TallyRequests(c) ==
    /\ pc[c] = "tally_requests"
    /\ stats' = [stats EXCEPT !.num_requests = @ + 1]
    /\ hist' = [hist EXCEPT ![c].completions = @ + 1]
    /\ pc' = [pc EXCEPT ![c] = "tally_total"]
    /\ UNCHANGED <<SOCKET_TIMEOUT, lock, main_pc, accepted, conn, frame>>

\* line 582
TallyTotal(c) ==
    /\ pc[c] = "tally_total"
    /\ stats' = [stats EXCEPT !.tot_time = @ + frame[c].duration]
    /\ pc' = [pc EXCEPT ![c] = "tally_average"]
    /\ UNCHANGED <<SOCKET_TIMEOUT, lock, main_pc, accepted, conn, frame, hist>>

\* An average computed with the integer division of Python 2.
TallyAverageFloor(c) ==
    /\ pc[c] = "tally_average"
    /\ stats' = [stats EXCEPT !.avg_time = <<stats.tot_time \div stats.num_requests, 1>>]
    /\ pc' = [pc EXCEPT ![c] = "tally_max"]
    /\ UNCHANGED <<SOCKET_TIMEOUT, lock, main_pc, accepted, conn, frame, hist>>

\* line 583
TallyAverage(c) ==
    /\ pc[c] = "tally_average"
    /\ stats' = [stats EXCEPT !.avg_time = Fraction(stats.tot_time, stats.num_requests)]
    /\ pc' = [pc EXCEPT ![c] = "tally_max"]
    /\ UNCHANGED <<SOCKET_TIMEOUT, lock, main_pc, accepted, conn, frame, hist>>

\* lines 584-585, and the end of the with block and of the try block
TallyMax(c) ==
    /\ pc[c] = "tally_max"
    /\ stats' = IF frame[c].duration > stats.max_time
                THEN [stats EXCEPT !.max_time = frame[c].duration]
                ELSE stats
    /\ Release(c)
    /\ frame' = [frame EXCEPT ![c] = NoFrame]
    /\ pc' = [pc EXCEPT ![c] = "finally"]
    /\ UNCHANGED <<SOCKET_TIMEOUT, main_pc, accepted, conn, hist>>

\* line 587
FinallyClose(c) ==
    /\ pc[c] = "finally"
    /\ conn' = [conn EXCEPT ![c].sock_open = FALSE]
    /\ hist' = [hist EXCEPT ![c].sock_closes = @ + 1]
    /\ pc' = [pc EXCEPT ![c] = "closed"]
    /\ UNCHANGED <<SOCKET_TIMEOUT, stats, lock, main_pc, accepted, frame>>

\* line 589
CloseAcquire(c) ==
    /\ pc[c] = "closed"
    /\ Acquire(c)
    /\ pc' = [pc EXCEPT ![c] = "close_cs"]
    /\ UNCHANGED <<SOCKET_TIMEOUT, stats, main_pc, accepted, conn, frame, hist>>

\* A decrement that only runs when the try block ended without an exception.
CloseConnectionUnlessFailed(c) ==
    /\ pc[c] = "close_cs"
    /\ stats' = IF hist[c].failed = "no"
                THEN [stats EXCEPT !.active_connections = @ - 1]
                ELSE stats
    /\ Release(c)
    /\ hist' = [hist EXCEPT ![c].closed = @ + 1]
    /\ pc' = [pc EXCEPT ![c] = "done"]
    /\ UNCHANGED <<SOCKET_TIMEOUT, main_pc, accepted, conn, frame>>

\* line 590, and the end of the with block; the thread ends
CloseConnection(c) ==
    /\ pc[c] = "close_cs"
    /\ stats' = [stats EXCEPT !.active_connections = @ - 1]
    /\ Release(c)
    /\ hist' = [hist EXCEPT ![c].closed = @ + 1]
    /\ pc' = [pc EXCEPT ![c] = "done"]
    /\ UNCHANGED <<SOCKET_TIMEOUT, main_pc, accepted, conn, frame>>

\* the steps of a worker that wait for nothing but stats.lock
Compute(c) ==
    \/ OpenAcquire(c) \/ OpenConnection(c) \/ EnterReadHead(c)
    \/ DispatchStatus(c) \/ StatusRead(c) \/ StatusRelease(c) \/ Dispatch(c)
    \/ SendTally(c) \/ SendCountError(c) \/ SendNoTally(c)
    \/ RequestDone(c) \/ TallyRequests(c) \/ TallyTotal(c) \/ TallyAverage(c)
    \/ TallyMax(c) \/ FinallyClose(c) \/ CloseAcquire(c) \/ CloseConnection(c)

\* the steps of a worker that wait for the peer
SocketIO(c) == ReadHead(c) \/ ReadBody(c) \/ SendHead(c) \/ SendBody(c)

Worker(c) == Compute(c) \/ SocketIO(c)

Main == Accept \/ CountAcquire \/ CountConnection \/ Spawn

Next == Main \/ \E c \in Conns : Worker(c)

Spec == Init /\ [][Next]_vars

\* A thread that can take a step takes one: no thread stops inside a "with
\* stats.lock:" block or while it computes. Nothing makes a peer send.
Fairness == WF_vars(CountConnection) /\ \A c \in Conns : WF_vars(Compute(c))

\* the server as line 126 configures it
FairInit == Init /\ SOCKET_TIMEOUT = "None"

FairSpec == FairInit /\ [][Next]_vars /\ Fairness

\* The accept loop goes on as well: it takes stats.lock when the lock stays
\* free and starts the worker thread. Nothing makes a client connect.
AcceptFairness == Fairness /\ WF_vars(CountAcquire) /\ WF_vars(Spawn)

AcceptFairSpec == FairInit /\ [][Next]_vars /\ AcceptFairness

\* ------------------------------------------- the readers of one connection

\* The connection whose readers are called on their own, with any bytes.
Reader == CHOOSE c \in Conns : \A d \in Conns : c <= d

StreamPieces == {<<>>, <<"a">>, <<"\\xff">>, <<"\r">>, CRLF, BlankLine}

\* the bytes a client sends before it stops or closes the socket
Streams == {p \o q \o r : p \in StreamPieces, q \in StreamPieces, r \in StreamPieces}

\* the byte sequence s cut after the positions in cuts
RECURSIVE SplitAt(_, _)
SplitAt(s, cuts) ==
    IF cuts = {} THEN <<s>>
    ELSE LET k == CHOOSE i \in cuts : \A j \in cuts : i <= j
         IN  <<SubSeq(s, 1, k)>>
                 \o SplitAt(SubSeq(s, k + 1, Len(s)), {j - k : j \in cuts \ {k}})

\* the ways recv() may deliver the bytes s: in at most MaxReads pieces, none empty
Chunkings(s) ==
    IF s = <<>> THEN {<<>>}
    ELSE { [i \in 1..Len(SplitAt(s, cuts)) |-> RecvBytes(SplitAt(s, cuts)[i])] :
           cuts \in {C \in SUBSET (1..(Len(s) - 1)) : Cardinality(C) < MaxReads} }

\* what the socket of the connection gives, recv() after recv(): the bytes,
\* and then nothing at all or the end of the stream
StreamScripts ==
    UNION { {chunks \o end : chunks \in Chunkings(s), end \in {<<>>, <<RecvClosed>>}} :
            s \in Streams }

\* the bytes in a sequence of recv() results
RECURSIVE Bytes(_)
Bytes(script) ==
    IF script = <<>> THEN <<>> ELSE Head(script).bytes \o Bytes(Tail(script))

\* recv(k) gives at most k bytes: the recv() results as the calls recv(need),
\* recv(need - len(more_data)), ... of read_amount get them
RECURSIVE RecvAtMost(_, _)
RecvAtMost(script, need) ==
    IF script = <<>> \/ need <= 0 THEN script
    ELSE LET more_data == Head(script).bytes
         IN  IF Head(script).kind # "bytes" \/ more_data = <<>> THEN script
             ELSE IF Len(more_data) > need
             THEN << RecvBytes(SubSeq(more_data, 1, need)),
                     RecvBytes(SubSeq(more_data, need + 1, Len(more_data))) >>
                      \o Tail(script)
             ELSE <<Head(script)>> \o RecvAtMost(Tail(script), need - Len(more_data))

\* what a call of a reader did: its argument, leftover_data before and after,
\* the bytes of all later recv() results before it, the bytes it received
\* itself, what it returned, and the bytes it left in the socket
CallRecord(call, n, r) ==
    [ call |-> call, n |-> n,
      before |-> conn[Reader].leftover_data,
      stream |-> Bytes(frame[Reader].pending),
      taken |-> SubSeq(Bytes(frame[Reader].pending), 1,
                       Len(Bytes(frame[Reader].pending)) - Len(Bytes(r.unread))),
      ret |-> r.ret,
      after |-> r.leftover_data,
      unread |-> Bytes(r.unread) ]

ReaderInit ==
    /\ SOCKET_TIMEOUT = "None"
    /\ stats = NewStatistics
    /\ lock = NoOwner
    /\ main_pc = "accept"
    /\ accepted = 0
    /\ pc = [c \in Conns |-> "idle"]
    /\ conn = [c \in Conns |-> NewConnection]
    /\ \E script \in StreamScripts :
         frame = [c \in Conns |-> IF c = Reader THEN [pending |-> script] ELSE NoFrame]
    /\ hist = [c \in Conns |-> IF c = Reader THEN [calls |-> <<>>] ELSE NoHistory]

\* one call of conn.read_until_blank_line() that returns
CallReadUntilBlankLine ==
    /\ Len(hist[Reader].calls) < MaxCalls
    /\ \E r \in {read_until_blank_line(conn[Reader].leftover_data, frame[Reader].pending)} :
         /\ r.ret # Blocked
         /\ conn' = [conn EXCEPT ![Reader].leftover_data = r.leftover_data]
         /\ frame' = [frame EXCEPT ![Reader].pending = r.unread]
         /\ hist' = [hist EXCEPT ![Reader].calls =
                         Append(@, CallRecord("read_until_blank_line", 0, r))]
    /\ UNCHANGED <<SOCKET_TIMEOUT, stats, lock, main_pc, accepted, pc>>

\* one call of conn.read_amount(n) that returns
CallReadAmount ==
    /\ Len(hist[Reader].calls) < MaxCalls
    /\ \E n \in 0..MaxAmount :
         \E r \in {read_amount(conn[Reader].leftover_data, n,
                               RecvAtMost(frame[Reader].pending,
                                          n - Len(conn[Reader].leftover_data)))} :
             /\ r.ret # Blocked
             /\ conn' = [conn EXCEPT ![Reader].leftover_data = r.leftover_data]
             /\ frame' = [frame EXCEPT ![Reader].pending = r.unread]
             /\ hist' = [hist EXCEPT ![Reader].calls =
                             Append(@, CallRecord("read_amount", n, r))]
    /\ UNCHANGED <<SOCKET_TIMEOUT, stats, lock, main_pc, accepted, pc>>

ReaderNext == CallReadUntilBlankLine \/ CallReadAmount

ReaderSpec == ReaderInit /\ [][ReaderNext]_vars

\* ------------------------------------------------------------ get_cookie

\* In the text of a Cookie header the bytes ";" and "=" are atoms as well.

\* str.split(sep): the pieces of s between the occurrences of sep
RECURSIVE SplitOn(_, _)
SplitOn(s, sep) ==
    LET k == Find(s, sep)
    IN  IF k = 0 THEN <<s>>
        ELSE <<SubSeq(s, 1, k - 1)>> \o SplitOn(SubSeq(s, k + Len(sep), Len(s)), sep)

\* str.split(sep, 1): s cut at the first occurrence of sep, if there is one
SplitOnce(s, sep) ==
    LET k == Find(s, sep)
    IN  IF k = 0 THEN <<s>>
        ELSE <<SubSeq(s, 1, k - 1), SubSeq(s, k + Len(sep), Len(s))>>

\* str.lstrip()
RECURSIVE lstrip(_)
lstrip(s) == IF s # <<>> /\ Head(s) \in Whitespace THEN lstrip(Tail(s)) ELSE s

\* str.rstrip()
RECURSIVE rstrip(_)
rstrip(s) ==
    IF s # <<>> /\ s[Len(s)] \in Whitespace THEN rstrip(SubSeq(s, 1, Len(s) - 1)) ELSE s

\* the exception a call of a method that a list does not have raises
AttributeError == [raised |-> "AttributeError"]

\* lines 285-297: the loop over the pairs; line 294 calls lstrip() on the
\* list keyval, which raises AttributeError
RECURSIVE LookupPairs(_, _)
LookupPairs(pairs, name) ==
    IF pairs = <<>> THEN None
    ELSE LET keyval == SplitOnce(Head(pairs), <<"=">>)
         IN  IF Len(keyval) = 2
             THEN IF rstrip(keyval[1]) = name
                  THEN Str(lstrip(keyval[2]))
                  ELSE LookupPairs(Tail(pairs), name)
             ELSE AttributeError

\* get_cookie(headers, name)
get_cookie(headers, name) ==
    LET vals == get_header_value(headers, <<"Cookie">>)
    IN  IF vals = None THEN None
        ELSE LookupPairs(SplitOn(vals.text, <<";", " ">>), name)

\* the segments of the Cookie headers get_cookie is called with
CookieSegments ==
    { <<"a", "=", "1">>, <<"b", "=", "2">>, <<"a", "=", "3">>, <<"B", "=", "4">>,
      <<"b", " ", "=", " ", "2">>, <<"c", "=", "1", "=", "2">>, <<"=", "5">>, <<"x">> }

RECURSIVE JoinSegments(_)
JoinSegments(segs) ==
    IF Len(segs) = 1 THEN segs[1]
    ELSE segs[1] \o <<";", " ">> \o JoinSegments(Tail(segs))

\* the values of a Cookie header: up to MaxSegments segments
CookieValues ==
    UNION { {JoinSegments(segs) : segs \in [1..n -> CookieSegments]} : n \in 1..MaxSegments }

\* the header lists get_cookie is called with: no Cookie header, one, and
\* one that follows another header
CookieHeaders ==
    {<<>>, <<<<"Host", ":", " ", "localhost">>>>}
    \cup { <<<<"Cookie", ":", " ">> \o v>> : v \in CookieValues }
    \cup { << <<"Host", ":", " ", "localhost">>, <<"cookie", ":", " ">> \o v >> :
           v \in CookieValues }

CookieNames == {<<>>, <<"a">>, <<"b">>, <<"B">>, <<"c">>, <<"x">>}

CookieInit ==
    /\ SOCKET_TIMEOUT = "None"
    /\ stats = NewStatistics
    /\ lock = NoOwner
    /\ main_pc = "accept"
    /\ accepted = 0
    /\ pc = [c \in Conns |-> "idle"]
    /\ conn = [c \in Conns |-> NewConnection]
    /\ \E headers \in CookieHeaders, name \in CookieNames :
         frame = [c \in Conns |->
                     IF c = Reader THEN [headers |-> headers, name |-> name] ELSE NoFrame]
    /\ hist = [c \in Conns |-> IF c = Reader THEN [calls |-> <<>>] ELSE NoHistory]

\* one call of get_cookie(headers, name)
CallGetCookie ==
    /\ hist[Reader].calls = <<>>
    /\ hist' = [hist EXCEPT ![Reader].calls =
                    <<[ call |-> "get_cookie", headers |-> frame[Reader].headers,
                        name |-> frame[Reader].name,
                        ret |-> get_cookie(frame[Reader].headers, frame[Reader].name) ]>>]
    /\ UNCHANGED <<SOCKET_TIMEOUT, stats, lock, main_pc, accepted, pc, conn, frame>>

CookieSpec == CookieInit /\ [][CallGetCookie]_vars

\* ------------------------------------------------------ send_http_response

\* the bodies a Response may carry: str, bytes, or the default None
SendBodies ==
    { None, Str(<<>>), Str(<<"a">>), Str(<<"\\u00e9">>), Str(<<"a", "\\u00e9">>),
      Raw(<<"\\xc3">>), Raw(<<"a", "b">>) }

\* lines 94-98: the responses a handler may make
SendResponses ==
    { Response(code, mime_type, body) :
          code \in {Ok200, NotFound404, LengthRequired411},
          mime_type \in {None, TextPlain},
          body \in SendBodies }

\* line 410: send_http_response(conn, resp) is called on an open connection
SendInit ==
    /\ SOCKET_TIMEOUT = "None"
    /\ stats = NewStatistics
    /\ lock = NoOwner
    /\ main_pc = "accept"
    /\ accepted = 0
    /\ pc = [c \in Conns |-> IF c = Reader THEN "send" ELSE "idle"]
    /\ conn = [c \in Conns |-> NewConnection]
    /\ \E resp \in SendResponses :
         frame = [c \in Conns |-> IF c = Reader THEN [NoFrame EXCEPT !.resp = resp]
                                  ELSE NoFrame]
    /\ hist = [c \in Conns |-> NoHistory]

\* lines 410-449
SendNext ==
    \/ SendTally(Reader) \/ SendCountError(Reader) \/ SendNoTally(Reader)
    \/ SendHead(Reader) \/ SendBody(Reader)

SendSpec == SendInit /\ [][SendNext]_vars

\* ------------------------------------------------- the request statistics

\* A float is the fraction <<numerator, denominator>>, in lowest terms, of a
\* number that has at most MantissaBits significant bits; the result of an
\* operation is the exact result rounded to the nearest such number, to the
\* one with the even mantissa when two are as near.

RECURSIVE Pow2(_)
Pow2(k) == IF k <= 0 THEN 1 ELSE 2 * Pow2(k - 1)

\* the exponents of the floats that occur
Exponents == (0 - 2 * MantissaBits)..(2 * MantissaBits)

\* the fraction n/d, n > 0, divided by 2^e
Scaled(n, d, e) == <<n * Pow2(0 - e), d * Pow2(e)>>

\* the float nearest to the fraction n/d
Round(n, d) ==
    IF n = 0 THEN <<0, 1>>
    ELSE LET e == CHOOSE x \in Exponents :
                      /\ Pow2(MantissaBits - 1) * Scaled(n, d, x)[2] <= Scaled(n, d, x)[1]
                      /\ Scaled(n, d, x)[1] < Pow2(MantissaBits) * Scaled(n, d, x)[2]
             num == Scaled(n, d, e)[1]
             den == Scaled(n, d, e)[2]
             low == num \div den
             twice == 2 * (num % den)
             mantissa == IF twice < den THEN low
                         ELSE IF twice > den THEN low + 1
                         ELSE IF low % 2 = 0 THEN low ELSE low + 1
         IN  Fraction(mantissa * Pow2(e), Pow2(0 - e))

\* a + b
FloatAdd(a, b) == Round(a[1] * b[2] + b[1] * a[2], a[2] * b[2])

\* a / k, k an int
FloatDiv(a, k) == Round(a[1], a[2] * k)

\* a > b
FloatGreater(a, b) == a[1] * b[2] > b[1] * a[2]

\* A tally that computes the average before it adds the duration.
TallyStaleAverage(s, duration) ==
    [ s EXCEPT !.num_requests = @ + 1,
               !.tot_time = FloatAdd(@, duration),
               !.avg_time = FloatDiv(s.tot_time, s.num_requests + 1),
               !.max_time = IF FloatGreater(duration, @) THEN duration ELSE @ ]

\* lines 581-585, with float durations: the Statistics after the block
Tally(s, duration) ==
    [ s EXCEPT !.num_requests = @ + 1,
               !.tot_time = FloatAdd(@, duration),
               !.avg_time = FloatDiv(FloatAdd(s.tot_time, duration), s.num_requests + 1),
               !.max_time = IF FloatGreater(duration, @) THEN duration ELSE @ ]

\* line 575: the handling times the clock gives, whole ticks
FloatDurations == {<<ticks, 1>> : ticks \in 0..MaxTicks}

\* Statistics.__init__, the times as floats
StatsInit ==
    /\ SOCKET_TIMEOUT = "None"
    /\ stats = [NewStatistics EXCEPT !.max_time = <<0, 1>>, !.tot_time = <<0, 1>>]
    /\ lock = NoOwner
    /\ main_pc = "accept"
    /\ accepted = 0
    /\ pc = [c \in Conns |-> "idle"]
    /\ conn = [c \in Conns |-> NewConnection]
    /\ frame = [c \in Conns |-> NoFrame]
    /\ hist = [c \in Conns |-> IF c = Reader THEN [calls |-> <<>>] ELSE NoHistory]

\* lines 580-585 for one request, the lock taken and released
RecordRequest ==
    /\ Len(hist[Reader].calls) < MaxRecords
    /\ lock = NoOwner
    /\ \E duration \in FloatDurations :
         /\ stats' = Tally(stats, duration)
         /\ hist' = [hist EXCEPT ![Reader].calls =
                         Append(@, [call |-> "tally", duration |-> duration])]
    /\ UNCHANGED <<SOCKET_TIMEOUT, lock, main_pc, accepted, pc, conn, frame>>

StatsSpec == StatsInit /\ [][RecordRequest]_vars

\* ------------------------------------------------------------- properties

Threads == {MainThread} \cup Conns

ThreadPc(t) == IF t = MainThread THEN main_pc ELSE pc[t]

\* the positions of a worker from the finally clause of line 586 on
ClosingPcs == {"finally", "closed", "close_cs", "done"}

\* the positions of a worker after send_http_response has returned
AfterSendPcs ==
    {"returned", "tally_requests", "tally_total", "tally_average", "tally_max"}
        \cup ClosingPcs

IsHead(h) == "text" \in DOMAIN h

\* the responses sendall() wrote in full: every response of this server has a body
ResponsesWritten(c) ==
    Cardinality({i \in 1..Len(hist[c].sent) : hist[c].sent[i].part = "body"})

HeadsWritten(c) == {i \in 1..Len(hist[c].sent) : hist[c].sent[i].part = "head"}

\* C1: once a response has been written in full and nothing has failed, the
\* session reads the next request instead of closing the connection.
C1_KeepsReadingAfterResponse ==
    \A c \in Conns :
        ResponsesWritten(c) >= 1 /\ hist[c].failed = "no" => pc[c] \notin ClosingPcs

\* C2: active_connections is never negative; it counts the sessions that have
\* incremented it and not yet decremented it; a session increments it once
\* before it reads anything and decrements it once when it ends, whether or
\* not an exception ended it.
C2_ActiveConnectionsCounted ==
    /\ stats.active_connections >= 0
    /\ stats.active_connections =
           Cardinality({c \in Conns : hist[c].opened = 1 /\ hist[c].closed = 0})
    /\ \A c \in Conns :
         /\ hist[c].closed <= hist[c].opened
         /\ hist[c].opened = IF pc[c] \in {"idle", "start", "open_cs"} THEN 0 ELSE 1
         /\ hist[c].closed = IF pc[c] = "done" THEN 1 ELSE 0

C2_Witness ==
    \E c, d \in Conns :
        /\ pc[c] = "done"
        /\ hist[c].failed # "no"
        /\ hist[d].opened = 1
        /\ hist[d].closed = 0
        /\ stats.active_connections = 1

\* C3: whenever stats.lock is free and a request has been counted, avg_time is
\* tot_time / num_requests; the worker that counts a request holds the lock
\* from the increment of num_requests to the update of max_time.
C3_AverageConsistent ==
    /\ lock = NoOwner /\ stats.num_requests > 0 =>
           stats.avg_time = Fraction(stats.tot_time, stats.num_requests)
    /\ \A c \in Conns :
           pc[c] \in {"tally_requests", "tally_total", "tally_average", "tally_max"} =>
               lock = <<c>>

C3_Witness ==
    /\ lock = NoOwner
    /\ stats.num_requests = 2
    /\ stats.tot_time = 1
    /\ stats.avg_time = <<1, 2>>

\* C4: a thread about to read or write a Statistics field holds stats.lock, at
\* most one thread is inside a "with stats.lock:" block, and the fields the
\* status report has read so far all equal the current Statistics fields.
C4_AccessUnderLock ==
    /\ \A t \in Threads : Accesses(ThreadPc(t)) # {} => lock = <<t>>
    /\ Cardinality({t \in Threads : Accesses(ThreadPc(t)) # {}}) <= 1
    /\ \A c \in Conns :
         pc[c] = "status_cs" =>
             \A i \in 1..Len(frame[c].snap) :
                 frame[c].snap[i] = stats[StatusFields[i]]

C4_Witness ==
    \E c, d \in Conns :
        /\ pc[c] = "status_cs"
        /\ Len(frame[c].snap) = Len(StatusFields)
        /\ frame[c].snap[2] = 2
        /\ pc[d] = "returned"

\* C5: a session closes its socket and decrements active_connections at most
\* once each, and a session that has ended, on whatever path, has done both
\* exactly once.
C5_ClosedExactlyOnce ==
    \A c \in Conns :
        /\ hist[c].sock_closes = IF pc[c] \in {"closed", "close_cs", "done"} THEN 1 ELSE 0
        /\ conn[c].sock_open = (hist[c].sock_closes = 0)
        /\ hist[c].closed = IF pc[c] = "done" THEN 1 ELSE 0

C5_Witness ==
    \E c \in Conns :
        /\ pc[c] = "done"
        /\ hist[c].failed = "send"
        /\ hist[c].sock_closes = 1
        /\ hist[c].closed = 1

\* C6: a connection whose first recv() gives no bytes leads to a session that
\* has ended with read_until_blank_line having returned ERR_SOCKET_WAS_CLOSED,
\* nothing written to the socket, no request routed, and active_connections
\* decremented exactly once.
C6_ClosedSocketEndsSession ==
    \A c \in Conns :
        (hist[c].first_recv = "closed")
            ~> ( /\ pc[c] = "done"
                 /\ hist[c].closed = 1
                 /\ hist[c].head = ERR_SOCKET_WAS_CLOSED
                 /\ hist[c].sent = <<>>
                 /\ hist[c].dispatches = 0 )

C6_Witness ==
    \E c \in Conns :
        /\ hist[c].first_recv = "closed"
        /\ pc[c] = "done"
        /\ hist[c].closed = 1
        /\ hist[c].sent = <<>>

\* C7: a session increments num_requests only for a response it has written:
\* never more often than it has written responses.
C7_CountsOnlyResponses ==
    \A c \in Conns : hist[c].completions <= ResponsesWritten(c)

\* the head that was read has no line, or its first line is not three words
C8_BadRequestLine(c) ==
    /\ IsHead(hist[c].head)
    /\ LET lines == splitlines(hist[c].head.text)
       IN  Len(lines) = 0 \/ Len(split(lines[1])) # 3

\* C8: a session whose head has no line or whose request line is not three
\* words reads no body, routes nothing, writes no response but a 400, writes
\* it unless sendall() fails, and increments num_errors exactly once, before
\* it writes.
C8_MalformedAnswered400 ==
    \A c \in Conns :
        C8_BadRequestLine(c) =>
            /\ hist[c].body_reads = 0
            /\ hist[c].dispatches = 0
            /\ hist[c].tallies = IF pc[c] \in {"send", "error_cs"} THEN 0 ELSE 1
            /\ \A i \in HeadsWritten(c) : hist[c].sent[i].code = BadRequest400
            /\ pc[c] \in AfterSendPcs /\ hist[c].failed = "no" =>
                   Len(hist[c].sent) = 2 /\ ResponsesWritten(c) = 1

C8_Witness ==
    \E c \in Conns :
        /\ hist[c].head = Str(<<"GET", " ", "/foo">>)
        /\ pc[c] = "done"
        /\ hist[c].tallies = 1
        /\ ResponsesWritten(c) = 1

\* C9: when the peer closes the socket while read_amount waits for the body,
\* the request is abandoned: it is not routed and nothing is written.
C9_ClosedBodyAbandoned ==
    \A c \in Conns :
        hist[c].body_closed => hist[c].dispatches = 0 /\ hist[c].sent = <<>>

\* C10: a session whose handler raised an exception has, when it ends, written
\* a response with a 5xx status.
C10_DispatchFailureAnswered5xx ==
    \A c \in Conns :
        hist[c].failed = "dispatch" /\ pc[c] = "done" =>
            \E i \in HeadsWritten(c) :
                hist[c].sent[i].code[1] \in {"500", "501", "502", "503"}

\* the connections whose session has decremented active_connections
ClosedConnections == {c \in Conns : hist[c].closed = 1}

\* C11: total_connections and active_connections are incremented for a
\* connection in one atomic step: a status report, which reads both under
\* stats.lock, never sees a connection counted in total_connections that is
\* neither active nor closed.
C11_OpenedAtomically ==
    \A c \in Conns :
        pc[c] = "status_cs" =>
            stats.total_connections =
                stats.active_connections + Cardinality(ClosedConnections)

\* the codes send_http_response was called with that satisfy a test
CodesWhere(c, Test(_)) ==
    Cardinality({i \in 1..Len(hist[c].codes) : Test(hist[c].codes[i])})

NotPrefixed200(code) == ~StartsWith(code, <<"200">>)

\* C12: send_http_response increments num_errors once, holding stats.lock,
\* for a response whose status does not begin with "200", and never for one
\* whose status does, whatever the mime type and the body of the response.
C12_ErrorNotifiedOnce ==
    \A c \in Conns :
        /\ pc[c] = "error_cs" => lock = <<c>>
        /\ hist[c].tallies =
               IF pc[c] = "error_cs" THEN 0 ELSE CodesWhere(c, NotPrefixed200)
        /\ Len(hist[c].sent) <= 2 * Len(hist[c].codes)

C12_Witness ==
    \E c, d \in Conns :
        /\ hist[c].codes = <<Ok200>>
        /\ hist[c].tallies = 0
        /\ ResponsesWritten(c) = 1
        /\ hist[d].codes = <<NotFound404>>
        /\ hist[d].tallies = 1
        /\ ResponsesWritten(d) = 1

RECURSIVE Sum(_, _)
Sum(f, S) ==
    IF S = {} THEN 0
    ELSE LET x == CHOOSE y \in S : TRUE IN f[x] + Sum(f, S \ {x})

\* a status code outside 200-299
Non2xx(code) == code[1] \notin {"200", "201", "202", "203", "204", "205", "206"}

\* the responses a session has sent whose status is outside 200-299
Non2xxSent(c) ==
    Cardinality({i \in HeadsWritten(c) : Non2xx(hist[c].sent[i].code)})

NotPrefixed200Space(code) == ~StartsWith(code, <<"200", " ">>)

\* the calls of send_http_response of a session that have tallied an error
ErrorsTallied(c) ==
    IF pc[c] = "error_cs" THEN 0 ELSE CodesWhere(c, NotPrefixed200Space)

CallsOf(call) ==
    {i \in 1..Len(hist[Reader].calls) : hist[Reader].calls[i].call = call}

\* C14: read_until_blank_line finds the blank line if and only if it occurs
\* in leftover_data followed by the bytes it received; when the bytes the
\* client sent hold a blank line, the call returns what it returns when it
\* receives the same bytes in one piece, and leaves the same bytes unread (in
\* leftover_data and in the socket); a head it returns is what precedes the
\* first blank line.
C14_ChunkBoundaryIndependent ==
    \A i \in CallsOf("read_until_blank_line") :
        LET rec == hist[Reader].calls[i]
            whole == rec.before \o rec.stream
            k == Find(whole, BlankLine)
            once == read_until_blank_line(rec.before,
                        IF rec.stream = <<>> THEN <<>> ELSE <<RecvBytes(rec.stream)>>)
        IN  /\ rec.ret # ERR_SOCKET_WAS_CLOSED
                   <=> Find(rec.before \o rec.taken, BlankLine) # 0
            /\ IsHead(rec.ret) => rec.ret.text = SubSeq(whole, 1, k - 1)
            /\ k # 0 =>
                   /\ rec.ret = once.ret
                   /\ rec.after \o rec.unread = once.leftover_data \o Bytes(once.unread)

\* C15: a call of read_until_blank_line that returns a head returns the bytes
\* before the first blank line, drops the blank line and keeps what follows in
\* leftover_data: head, blank line and leftover_data are leftover_data as it
\* was followed by the bytes received; the next call starts from that
\* leftover_data and from the bytes left in the socket.
C15_HeadDelimiterLeftover ==
    \A i \in CallsOf("read_until_blank_line") :
        LET rec == hist[Reader].calls[i]
        IN  /\ IsHead(rec.ret) =>
                /\ rec.ret.text \o BlankLine \o rec.after = rec.before \o rec.taken
                /\ Find(rec.before \o rec.taken, BlankLine) = Len(rec.ret.text) + 1
            /\ i > 1 =>
                /\ rec.before = hist[Reader].calls[i - 1].after
                /\ rec.stream = hist[Reader].calls[i - 1].unread

C15_Witness ==
    /\ CallsOf("read_until_blank_line") = {1, 2}
    /\ hist[Reader].calls[1].ret = Str(<<>>)
    /\ hist[Reader].calls[1].after = <<"a">> \o BlankLine
    /\ hist[Reader].calls[2].ret = Str(<<"a">>)
    /\ hist[Reader].calls[2].taken = <<>>
    /\ hist[Reader].calls[2].after = <<>>

\* C16: read_amount(n) returns the first n bytes of leftover_data followed by
\* the bytes it received and keeps the rest in leftover_data; when the peer
\* closes the socket before there are n bytes it returns None and
\* leftover_data holds every byte there is.
C16_ReadAmountExact ==
    \A i \in CallsOf("read_amount") :
        LET rec == hist[Reader].calls[i]
            whole == rec.before \o rec.taken
        IN  IF Len(whole) >= rec.n
            THEN /\ rec.ret = Str(SubSeq(whole, 1, rec.n))
                 /\ rec.after = SubSeq(whole, rec.n + 1, Len(whole))
            ELSE /\ rec.ret = None
                 /\ rec.after = whole

\* C17: the socket of a connection has the configured timeout exactly while
\* read_until_blank_line waits for bytes; whatever the call returns, the
\* timeout is removed when it returns, so that read_amount and sendall() run
\* with no timeout.
C17_TimeoutOnlyInHeadRead ==
    \A c \in Conns :
        conn[c].sock_timeout = IF pc[c] = "recv_head" THEN SOCKET_TIMEOUT ELSE "None"

C17_Witness ==
    \E c, d \in Conns :
        /\ SOCKET_TIMEOUT # "None"
        /\ pc[c] = "recv_head"
        /\ conn[c].sock_timeout = SOCKET_TIMEOUT
        /\ pc[d] = "returned"
        /\ hist[d].head = ERR_SOCKET_HAD_TIMEOUT
        /\ conn[d].sock_timeout = "None"

\* the header lines of a head that are "Transfer-Encoding: chunked", the name
\* in any case
ChunkedHeaders(lines) ==
    {i \in 2..Len(lines) :
        Lower(lines[i]) = <<"transfer-encoding", ":", " ", "chunked">>}

\* the head that was read has a request line of three words and a header
\* "Transfer-Encoding: chunked"
C18_CarriesChunked(c) ==
    /\ IsHead(hist[c].head)
    /\ LET lines == splitlines(hist[c].head.text)
       IN  /\ Len(lines) > 0
           /\ Len(split(lines[1])) = 3
           /\ ChunkedHeaders(lines) # {}

\* C18: a session whose request has a well-formed request line and a header
\* "Transfer-Encoding: chunked" reads no body, routes nothing, writes no
\* response but a 411, and writes it unless sendall() fails.
C18_ChunkedAnswered411 ==
    \A c \in Conns :
        C18_CarriesChunked(c) =>
            /\ hist[c].body_reads = 0
            /\ hist[c].dispatches = 0
            /\ pc[c] \notin {"read_body", "dispatch", "status_cs"}
            /\ \A i \in HeadsWritten(c) : hist[c].sent[i].code = LengthRequired411
            /\ pc[c] \in AfterSendPcs /\ hist[c].failed = "no" =>
                   ResponsesWritten(c) = 1

\* C20: whatever the workers do or fail to do, the accept loop, once accept()
\* has returned a connection, counts it, hands it to a worker thread and is
\* back at accept().
C20_AcceptLoopGoesOn == (main_pc # "accept") ~> (main_pc = "accept")

C20_Witness ==
    \E c, d \in Conns :
        /\ pc[c] = "done"
        /\ hist[c].failed = "dispatch"
        /\ pc[d] = "recv_head"
        /\ accepted = MaxConns
        /\ main_pc = "accept"

\* what the segments of a Cookie header stand for: a segment with "=" is the
\* key before the first "=", right-trimmed, and the value after it,
\* left-trimmed; a segment without "=" is the value of the key ""
SegmentKey(seg) ==
    IF Find(seg, <<"=">>) = 0 THEN <<>> ELSE rstrip(SubSeq(seg, 1, Find(seg, <<"=">>) - 1))

SegmentValue(seg) ==
    IF Find(seg, <<"=">>) = 0 THEN seg
    ELSE lstrip(SubSeq(seg, Find(seg, <<"=">>) + 1, Len(seg)))

\* the Cookie header values of a header list, the name in any case
CookieLines(headers) ==
    {i \in 1..Len(headers) : StartsWith(Lower(headers[i]), <<"cookie", ":", " ">>)}

\* C21: get_cookie returns the value of the first segment of the Cookie header
\* whose key is the name, a segment without "=" having the key "" and itself
\* as value, and None when no segment has that key or there is no Cookie
\* header.
C21_CookieLookup ==
    \A i \in CallsOf("get_cookie") :
        LET rec == hist[Reader].calls[i]
        IN  IF CookieLines(rec.headers) = {}
            THEN rec.ret = None
            ELSE LET line == rec.headers[CHOOSE j \in CookieLines(rec.headers) :
                                             \A k \in CookieLines(rec.headers) : j <= k]
                     segs == SplitOn(SubSeq(line, 4, Len(line)), <<";", " ">>)
                     hits == {j \in 1..Len(segs) : SegmentKey(segs[j]) = rec.name}
                 IN  IF hits = {} THEN rec.ret = None
                     ELSE rec.ret =
                              Str(SegmentValue(segs[CHOOSE j \in hits :
                                                        \A k \in hits : j <= k]))

\* the durations recorded so far
Recorded == [i \in 1..Len(hist[Reader].calls) |-> hist[Reader].calls[i].duration]

\* C22: after N >= 1 requests that all took the time d, avg_time is d and
\* max_time is d.
C22_SameDurationAverage ==
    \A d \in FloatDurations :
        Len(Recorded) >= 1 /\ (\A i \in 1..Len(Recorded) : Recorded[i] = d) =>
            stats.avg_time = d /\ stats.max_time = d

\* the float sum of the first k durations, added in the order recorded
RECURSIVE FloatSum(_, _)
FloatSum(ds, k) == IF k = 0 THEN <<0, 1>> ELSE FloatAdd(FloatSum(ds, k - 1), ds[k])

\* C22 as amended: max_time is the largest duration recorded and tot_time
\* their float sum, avg_time is the float quotient of tot_time by their
\* number; after N requests that all took the time d, max_time is d, and
\* avg_time is d when N is 1 or 2.
C22_SumMaxAverage ==
    LET N == Len(Recorded)
    IN  /\ stats.num_requests = N
        /\ stats.tot_time = FloatSum(Recorded, N)
        /\ \A i \in 1..N : ~FloatGreater(Recorded[i], stats.max_time)
        /\ N >= 1 =>
               /\ \E i \in 1..N : stats.max_time = Recorded[i]
               /\ stats.avg_time = FloatDiv(stats.tot_time, N)
        /\ \A d \in FloatDurations :
               N \in {1, 2} /\ (\A i \in 1..N : Recorded[i] = d) => stats.avg_time = d

C22_Witness ==
    /\ Len(Recorded) = MaxRecords
    /\ \A i \in 1..Len(Recorded) : Recorded[i] = <<5, 1>>
    /\ stats.max_time = <<5, 1>>
    /\ stats.avg_time = <<5, 1>>

\* the entries of sent that the k-th head written to connection c begins
PartsOf(c, k) ==
    LET sent == hist[c].sent
        heads == {i \in 1..Len(sent) : sent[i].part = "head"}
        first == CHOOSE i \in heads : Cardinality({j \in heads : j <= i}) = k
        after == {j \in heads : j > first}
        last == IF after = {} THEN Len(sent) ELSE (CHOOSE j \in after : \A x \in after : j <= x) - 1
    IN  SubSeq(sent, first, last)

\* the calls of send_http_response on connection c that wrote a head
HeadsSent(c) == Cardinality({i \in 1..Len(hist[c].sent) : hist[c].sent[i].part = "head"})

\* C23: the Content-Length of every head written is the number of body bytes
\* written after it: with no mime type it is 0 and no body follows, whatever
\* body the response has; with a mime type it is the length of the coerced
\* body, and those bytes follow once send_http_response has returned.
C23_ContentLengthIsBodyWritten ==
    \A c \in Conns :
        /\ HeadsSent(c) <= Len(hist[c].responses)
        /\ hist[c].sent # <<>> => hist[c].sent[1].part = "head"
        /\ \A k \in 1..HeadsSent(c) :
               LET resp == hist[c].responses[k]
                   parts == PartsOf(c, k)
                   head == parts[1]
                   written == IF Len(parts) = 1 THEN <<>> ELSE parts[2].bytes
                   sending == k = HeadsSent(c) /\ pc[c] = "send_body"
                   failed == k = HeadsSent(c) /\ hist[c].failed = "send"
               IN  /\ Len(parts) <= 2
                   /\ resp.mime_type = None =>
                          head.content_length = 0 /\ Len(parts) = 1 /\ ~sending
                   /\ resp.mime_type # None =>
                          /\ head.content_length = Len(CoercedBody(resp).text)
                          /\ Len(parts) = 2 => written = CoercedBody(resp).text
                          /\ Len(parts) = 1 => sending \/ failed
                   /\ ~sending /\ ~failed => head.content_length = Len(written)

\* a response of two characters that are three bytes has been written
C23_Witness ==
    /\ pc[Reader] = "returned"
    /\ Len(hist[Reader].responses) = 1
    /\ hist[Reader].responses[1].body = Str(<<"a", "\\u00e9">>)
    /\ hist[Reader].responses[1].mime_type = TextPlain
    /\ Len(hist[Reader].sent) = 2
    /\ hist[Reader].sent[1].content_length = 3
    /\ Len(hist[Reader].sent[2].bytes) = 3

\* a response with a body and no mime type has been written
C23_NoMimeType ==
    /\ pc[Reader] = "returned"
    /\ Len(hist[Reader].responses) = 1
    /\ hist[Reader].responses[1].body = Str(<<"a">>)
    /\ hist[Reader].responses[1].mime_type = None
    /\ Len(hist[Reader].sent) = 1
    /\ hist[Reader].sent[1].content_length = 0

\* the steps of handle_one_http_request that raise before a response is made
RaisedBeforeResponse == {"parse", "dispatch"}

\* C24: a session whose read_until_blank_line returned a head calls
\* send_http_response, which calls sendall(), exactly once, unless int() or a
\* handler raised an exception first: it never returns without a response and
\* never makes two.
C24_OneResponsePerHead ==
    \A c \in Conns :
        /\ Len(hist[c].codes) <= 1
        /\ HeadsSent(c) <= Len(hist[c].codes)
        /\ IsHead(hist[c].head) /\ pc[c] \in AfterSendPcs =>
               /\ hist[c].failed \notin RaisedBeforeResponse =>
                      /\ Len(hist[c].codes) = 1
                      /\ HeadsSent(c) = 1 \/ hist[c].failed = "send"
               /\ hist[c].failed \in RaisedBeforeResponse => hist[c].codes = <<>>

\* a head with a bad request line has been answered with 400, and the call
\* has returned
C24_Witness ==
    \E c \in Conns :
        /\ pc[c] = "returned"
        /\ IsHead(hist[c].head)
        /\ hist[c].failed = "no"
        /\ hist[c].codes = <<BadRequest400>>
        /\ HeadsSent(c) = 1

\* C25: active_connections is never negative and never more than
\* total_connections, and no step makes total_connections smaller.
C25_ActiveWithinTotal ==
    /\ [](0 <= stats.active_connections
            /\ stats.active_connections <= stats.total_connections)
    /\ [][stats'.total_connections >= stats.total_connections]_vars

\* every connection the accept loop counted is open in its worker
C25_Witness ==
    /\ stats.total_connections = MaxConns
    /\ stats.active_connections = MaxConns
    /\ \A c \in Conns : pc[c] \notin {"idle", "start", "open_cs"}

\* C26: whenever no thread holds stats.lock, num_errors is at most
\* num_requests.
C26_ErrorsWithinRequests ==
    lock = NoOwner => stats.num_errors <= stats.num_requests

====
